---- MODULE Spec2Model ----
(***************************************************************************)
(* Model of frontend/app.py: the Streamlit script that flags micro-stops,  *)
(* clusters GPS samples with a loaded DBSCAN model, summarises the         *)
(* clusters, optionally sends one SMS per large cluster and exports the    *)
(* per-sample results.                                                     *)
(*                                                                         *)
(* Numbers are exact: a mean is kept as the pair (sum, count) and a        *)
(* standardised distance as a fraction, so that every comparison the code  *)
(* makes on floats is made here on integers.                               *)
(***************************************************************************)
EXTENDS Integers, Sequences, FiniteSets, TLC

VARIABLES pc, modelo, uploaded_file, sms_enable, min_cluster_size, to_number,
          usar_filtro_velocidad, df, df_micro, df_cluster, summary, grandes,
          enviados, intentos, pantalla, df_final

vars == <<pc, modelo, uploaded_file, sms_enable, min_cluster_size, to_number,
          usar_filtro_velocidad, df, df_micro, df_cluster, summary, grandes,
          enviados, intentos, pantalla, df_final>>

(***************************************************************************)
(* Bounds of the model.                                                    *)
(***************************************************************************)
\* rows of an uploaded batch in the pipeline specification
MaxN == 6
\* rows of a batch in the clusterer specification
MaxPts == 5

(***************************************************************************)
(* Program constants.                                                      *)
(***************************************************************************)
\* the label DBSCAN gives to noise, filtered out on line 174
NOISE == -1
\* micro-stop cut-off of line 43 (km/h)
MicroStopSpeed == 5
\* mean-speed cut-off of the SMS filter, line 190 (km/h)
AlertSpeed == 5
\* st.number_input(min_value=3, ...), line 105
MinClusterSizeFloor == 3

(***************************************************************************)
(* Input domains.  A sample is one row of the uploaded file: Latitud,      *)
(* Longitud and the column found by the "velocidad" search.                *)
(***************************************************************************)
Sample(la, lo, v) == [Latitud |-> la, Longitud |-> lo, vel |-> v]

\* rows of the pipeline's batches
PipelineSamples == {Sample(0, 0, 4), Sample(0, 0, 5), Sample(1, 0, 6)}

\* rows of the clusterer's batches: five points of the feature grid
ClusterSamples ==
    {Sample(0, 0, 4), Sample(0, 0, 6), Sample(0, 1, 5),
     Sample(1, 0, 5), Sample(1, 1, 5)}

SeqsUpTo(S, n) == UNION {[1..k -> S] : k \in 0..n}

\* the joblib artefact: DBSCAN(eps, min_samples), eps kept as eps^2 = num/den
DBSCAN(num, den, m) == [eps_sq_num |-> num, eps_sq_den |-> den, min_samples |-> m]

\* eps^2 = 2, min_samples = 2 for the pipeline's batches
PipelineModels == {DBSCAN(2, 1, 2)}
\* eps^2 = 7, min_samples = 4 for the clusterer's batches
ClusterModels == {DBSCAN(7, 1, 4)}

(***************************************************************************)
(* Arithmetic helpers.                                                     *)
(***************************************************************************)
RECURSIVE SumSeq(_)
SumSeq(s) == IF s = <<>> THEN 0 ELSE Head(s) + SumSeq(Tail(s))

Column(d, f) == [i \in 1..Len(d) |-> d[i][f]]

Squares(s) == [i \in 1..Len(s) |-> s[i] * s[i]]

\* a finite set of integers as an ascending sequence
RECURSIVE Ascending(_)
Ascending(S) ==
    IF S = {} THEN <<>>
    ELSE LET lo == CHOOSE x \in S : \A y \in S : x <= y
         IN <<lo>> \o Ascending(S \ {lo})

(***************************************************************************)
(* StandardScaler.fit: per column, n^2 times the population variance,      *)
(* n*sum(x^2) - sum(x)^2.  A column of zero variance is scaled by 1        *)
(* (scikit-learn's handling of a zero scale), so it contributes nothing.   *)
(***************************************************************************)
NVar(d, f) ==
    LET c == Column(d, f)
    IN Len(d) * SumSeq(Squares(c)) - SumSeq(c) * SumSeq(c)

StandardScaler(d) ==
    [f \in {"Latitud", "Longitud", "vel"} |->
        IF NVar(d, f) = 0 THEN 1 ELSE NVar(d, f)]

\* squared Euclidean distance of rows i and j after fit_transform, as the
\* fraction num/den:  sum_f (x_i[f] - x_j[f])^2 * n^2 / scale[f]
Dist2(d, scale, i, j) ==
    LET dl == d[i].Latitud - d[j].Latitud
        dn == d[i].Longitud - d[j].Longitud
        dv == d[i].vel - d[j].vel
    IN [num |-> Len(d) * Len(d) *
                  (dl * dl * scale.Longitud * scale.vel
                   + dn * dn * scale.Latitud * scale.vel
                   + dv * dv * scale.Latitud * scale.Longitud),
        den |-> scale.Latitud * scale.Longitud * scale.vel]

(***************************************************************************)
(* DBSCAN.fit_predict on the scaled rows.                                  *)
(***************************************************************************)
\* rows within eps of row i, row i included
Neighborhoods(d, scale, m) ==
    [i \in 1..Len(d) |->
        {j \in 1..Len(d) :
            LET dist == Dist2(d, scale, i, j)
            IN dist.num * m.eps_sq_den <= m.eps_sq_num * dist.den}]

\* core rows: at least min_samples rows in the neighbourhood
CoreSamples(nb, m) == {i \in DOMAIN nb : Cardinality(nb[i]) >= m.min_samples}

\* the expansion of one cluster: label row i if it has no label yet, push
\* its unlabelled neighbours if it is a core row, continue from the stack
RECURSIVE Expand(_, _, _, _, _, _)
Expand(labels, stack, i, c, nb, core) ==
    LET fresh == labels[i] = NOISE
        l1 == IF fresh THEN [labels EXCEPT ![i] = c] ELSE labels
        s1 == IF fresh /\ i \in core
              THEN stack \o Ascending({v \in nb[i] : l1[v] = NOISE})
              ELSE stack
    IN IF s1 = <<>> THEN l1
       ELSE Expand(l1, SubSeq(s1, 1, Len(s1) - 1), s1[Len(s1)], c, nb, core)

\* the scan in row order: every unlabelled core row starts the next cluster
RECURSIVE dbscan_inner(_, _, _, _, _)
dbscan_inner(labels, i, c, nb, core) ==
    IF i > Len(labels) THEN labels
    ELSE IF labels[i] # NOISE \/ i \notin core
         THEN dbscan_inner(labels, i + 1, c, nb, core)
         ELSE dbscan_inner(Expand(labels, <<>>, i, c, nb, core), i + 1, c + 1, nb, core)

fit_predict(d, scale, m) ==
    LET nb == Neighborhoods(d, scale, m)
    IN dbscan_inner([i \in 1..Len(d) |-> NOISE], 1, 0, nb, CoreSamples(nb, m))

\* variant: the features are clustered as they are, without the scaler
agrupar_sin_escalar(d, m) ==
    fit_predict(d, [f \in {"Latitud", "Longitud", "vel"} |-> Len(d) * Len(d)], m)

\* variant: the labels are written back against the row order
agrupar_invertido(d, m) ==
    LET l == fit_predict(d, StandardScaler(d), m)
    IN [i \in 1..Len(d) |-> l[Len(d) + 1 - i]]

\* lines 49-58: scale the three feature columns, cluster, one label per row
agrupar_con_modelo(d, m) == fit_predict(d, StandardScaler(d), m)

(***************************************************************************)
(* Lines 41-44: one mark per row, the alert mark below the cut-off.        *)
(***************************************************************************)
\* the two marks of the "alerta" column (a warning sign and a check mark)
ALERTA == "alerta"
NORMAL == "ok"

\* variant: the cut-off itself counts as a micro-stop
detectar_microparadas_le(d) ==
    [i \in 1..Len(d) |-> IF d[i].vel <= MicroStopSpeed THEN ALERTA ELSE NORMAL]

detectar_microparadas(d) ==
    [i \in 1..Len(d) |-> IF d[i].vel < MicroStopSpeed THEN ALERTA ELSE NORMAL]

(***************************************************************************)
(* Lines 174-182: the summary.  A mean is the fraction sum/n.              *)
(***************************************************************************)
Mean(total, n) == [sum |-> total, n |-> n]

\* variant: the noise rows are kept
valid_all(labels) == 1..Len(labels)

\* line 174: the rows whose label is not the noise label
valid(labels) == {i \in 1..Len(labels) : labels[i] # NOISE}

Members(labels, c) == {i \in valid(labels) : labels[i] = c}

SumOver(d, f, rows) == SumSeq([k \in 1..Cardinality(rows) |-> d[Ascending(rows)[k]][f]])

\* lines 176-180: one row per label of the valid rows
groupby(d, labels) ==
    {[cluster |-> c,
      count |-> Cardinality(Members(labels, c)),
      lat |-> Mean(SumOver(d, "Latitud", Members(labels, c)), Cardinality(Members(labels, c))),
      lon |-> Mean(SumOver(d, "Longitud", Members(labels, c)), Cardinality(Members(labels, c))),
      vel_prom |-> Mean(SumOver(d, "vel", Members(labels, c)), Cardinality(Members(labels, c)))]
        : c \in {labels[i] : i \in valid(labels)}}

Orderings(rows) ==
    {s \in [1..Cardinality(rows) -> rows] : \A i, j \in DOMAIN s : i # j => s[i] # s[j]}

\* variant: ascending=True
sort_values_ascending(rows) ==
    {s \in Orderings(rows) : \A i, j \in DOMAIN s : i < j => s[i].count <= s[j].count}

\* line 181: sort_values("count", ascending=False) with the default sort,
\* which is not stable: rows of equal count come out in any order
sort_values(rows) ==
    {s \in Orderings(rows) : \A i, j \in DOMAIN s : i < j => s[i].count >= s[j].count}

(***************************************************************************)
(* Lines 188-192: the rows that warrant an SMS.                            *)
(***************************************************************************)
\* variant: a cluster of exactly the minimum size is left out
filt_strict(r, min_size, usar_filtro) ==
    /\ r.count > min_size
    /\ usar_filtro => r.vel_prom.sum < AlertSpeed * r.vel_prom.n

filt(r, min_size, usar_filtro) ==
    /\ r.count >= min_size
    /\ usar_filtro => r.vel_prom.sum < AlertSpeed * r.vel_prom.n

SelectRows(rows, min_size, usar_filtro) ==
    LET keep == {i \in DOMAIN rows : filt(rows[i], min_size, usar_filtro)}
    IN [k \in 1..Cardinality(keep) |-> rows[Ascending(keep)[k]]]

(***************************************************************************)
(* Lines 85-90: the outcomes of send_sms.  Without a destination number    *)
(* (or without credentials) it raises RuntimeError; otherwise the Twilio   *)
(* client either returns a message id or raises.                           *)
(***************************************************************************)
send_sms(to) ==
    IF to = "" THEN {"RuntimeError"}
    ELSE {"sid", "RuntimeError", "TwilioException"}

\* variant: no try/except around the SMS loop
except_propagates == "failed"

\* lines 196-208: what follows an exception of the SMS loop (the except
\* clause reports it and the script goes on with the download section)
except_sms == "descarga"

\* variant: the script goes on after an exception
uncaught_continues == "mapa_clusters"

\* an exception nothing catches ends the script run
uncaught == "failed"

\* variant: a batch without rows is accepted
fit_transform_accepts(d) == FALSE

\* line 54: StandardScaler.fit_transform rejects a batch without rows
fit_transform_raises(d) == Len(d) = 0

(***************************************************************************)
(* Lines 212-214: the exported table, one record per row of df.            *)
(***************************************************************************)
build_df_final(d, micro, cluster) ==
    [i \in 1..Len(d) |->
        [fila |-> d[i], alerta_microparada |-> micro[i], cluster_dbscan |-> cluster[i]]]

(***************************************************************************)
(* What the page shows, in order.                                          *)
(***************************************************************************)
Out(kind, n) == [kind |-> kind, n |-> n]
Show(kind) == pantalla' = Append(pantalla, Out(kind, 0))
Shown(kind) == \E k \in DOMAIN pantalla : pantalla[k].kind = kind

\* the uploaded file: whether it parses, which columns it has, its rows
File(ok, vel, coords, filas) ==
    [legible |-> ok, velocidad |-> vel, coords |-> coords, filas |-> filas]

Files ==
    {File(FALSE, TRUE, TRUE, <<>>), File(TRUE, FALSE, TRUE, <<>>),
     File(TRUE, TRUE, FALSE, <<>>)}
    \cup {File(TRUE, TRUE, TRUE, b) : b \in SeqsUpTo(PipelineSamples, MaxN)}

(***************************************************************************)
(* The script, block by block.                                             *)
(***************************************************************************)
Init ==
    /\ pc = "load_model"
    /\ modelo = <<>>
    /\ uploaded_file = <<>>
    /\ sms_enable = FALSE
    /\ min_cluster_size = 10
    /\ to_number = ""
    /\ usar_filtro_velocidad = FALSE
    /\ df = <<>> /\ df_micro = <<>> /\ df_cluster = <<>>
    /\ summary = <<>> /\ grandes = <<>>
    /\ enviados = 0 /\ intentos = <<>> /\ pantalla = <<>> /\ df_final = <<>>

\* lines 26-36 and 95-96
load_model ==
    /\ pc = "load_model"
    /\ \E m \in {<<>>} \cup {<<x>> : x \in PipelineModels} :
        /\ modelo' = m
        /\ IF m = <<>>
           THEN Show("error_modelo") /\ pc' = "stopped"
           ELSE pantalla' = pantalla /\ pc' = "file_uploader"
    /\ UNCHANGED <<uploaded_file, sms_enable, min_cluster_size, to_number,
                   usar_filtro_velocidad, df, df_micro, df_cluster, summary,
                   grandes, enviados, intentos, df_final>>

\* line 98
file_uploader ==
    /\ pc = "file_uploader"
    /\ \E f \in {<<>>} \cup {<<x>> : x \in Files} : uploaded_file' = f
    /\ pc' = "sms_panel"
    /\ UNCHANGED <<modelo, sms_enable, min_cluster_size, to_number,
                   usar_filtro_velocidad, df, df_micro, df_cluster, summary,
                   grandes, enviados, intentos, pantalla, df_final>>

\* lines 100-108
sms_panel ==
    /\ pc = "sms_panel"
    /\ sms_enable' \in BOOLEAN
    /\ min_cluster_size' \in {MinClusterSizeFloor, MinClusterSizeFloor + 1}
    /\ to_number' \in {"", "+51900000000"}
    /\ usar_filtro_velocidad' \in BOOLEAN
    /\ pc' = "lectura"
    /\ UNCHANGED <<modelo, uploaded_file, df, df_micro, df_cluster, summary,
                   grandes, enviados, intentos, pantalla, df_final>>

\* lines 110-138
lectura ==
    /\ pc = "lectura"
    /\ IF uploaded_file = <<>>
       THEN Show("info_subir") /\ pc' = "stopped" /\ df' = df
       ELSE LET f == uploaded_file[1]
            IN IF ~f.legible
               THEN Show("error_lectura") /\ pc' = "stopped" /\ df' = df
               ELSE IF ~f.velocidad
               THEN /\ pantalla' = pantalla \o <<Out("archivo_cargado", 0), Out("error_velocidad", 0)>>
                    /\ pc' = "stopped" /\ df' = f.filas
               ELSE IF ~f.coords
               THEN /\ pantalla' = pantalla \o <<Out("archivo_cargado", 0), Out("error_coords", 0)>>
                    /\ pc' = "stopped" /\ df' = f.filas
               ELSE Show("archivo_cargado") /\ pc' = "microparadas" /\ df' = f.filas
    /\ UNCHANGED <<modelo, uploaded_file, sms_enable, min_cluster_size, to_number,
                   usar_filtro_velocidad, df_micro, df_cluster, summary,
                   grandes, enviados, intentos, df_final>>

\* lines 140-152: the marks, then the map m1.  The centre of the map of a
\* batch without rows is NaN, which folium rejects or accepts by version.
microparadas ==
    /\ pc = "microparadas"
    /\ df_micro' = detectar_microparadas(df)
    /\ \E rejects \in BOOLEAN :
        IF df = <<>> /\ rejects
        THEN Show("excepcion") /\ pc' = uncaught
        ELSE Show("m1") /\ pc' = "dbscan"
    /\ UNCHANGED <<modelo, uploaded_file, sms_enable, min_cluster_size, to_number,
                   usar_filtro_velocidad, df, df_cluster, summary,
                   grandes, enviados, intentos, df_final>>

\* lines 154-156
dbscan ==
    /\ pc = "dbscan"
    /\ IF fit_transform_raises(df)
       THEN Show("excepcion") /\ pc' = uncaught /\ df_cluster' = df_cluster
       ELSE /\ df_cluster' = agrupar_con_modelo(df, modelo[1])
            /\ pantalla' = pantalla /\ pc' = "mapa_clusters"
    /\ UNCHANGED <<modelo, uploaded_file, sms_enable, min_cluster_size, to_number,
                   usar_filtro_velocidad, df, df_micro, summary,
                   grandes, enviados, intentos, df_final>>

\* lines 158-171
mapa_clusters ==
    /\ pc = "mapa_clusters"
    /\ Show("m2")
    /\ pc' = "resumen"
    /\ UNCHANGED <<modelo, uploaded_file, sms_enable, min_cluster_size, to_number,
                   usar_filtro_velocidad, df, df_micro, df_cluster, summary,
                   grandes, enviados, intentos, df_final>>

\* lines 173-184
resumen ==
    /\ pc = "resumen"
    /\ summary' \in sort_values(groupby(df, df_cluster))
    /\ Show("summary")
    /\ pc' = "trigger_sms"
    /\ UNCHANGED <<modelo, uploaded_file, sms_enable, min_cluster_size, to_number,
                   usar_filtro_velocidad, df, df_micro, df_cluster,
                   grandes, enviados, intentos, df_final>>

\* lines 186-197
trigger_sms ==
    /\ pc = "trigger_sms"
    /\ IF sms_enable /\ summary # <<>>
       THEN /\ grandes' = SelectRows(summary, min_cluster_size, usar_filtro_velocidad)
            /\ IF grandes' = <<>>
               THEN Show("info_sin_clusters") /\ pc' = "descarga"
               ELSE pantalla' = pantalla /\ pc' = "sms_loop"
       ELSE grandes' = grandes /\ pantalla' = pantalla /\ pc' = "descarga"
    /\ UNCHANGED <<modelo, uploaded_file, sms_enable, min_cluster_size, to_number,
                   usar_filtro_velocidad, df, df_micro, df_cluster, summary,
                   enviados, intentos, df_final>>

\* lines 198-208: one turn of the loop; the first exception leaves it
sms_loop ==
    /\ pc = "sms_loop"
    /\ LET r == grandes[Len(intentos) + 1]
       IN \E res \in send_sms(to_number) :
            /\ intentos' = Append(intentos, [cluster |-> r.cluster, result |-> res])
            /\ IF res = "sid"
               THEN /\ enviados' = enviados + 1
                    /\ IF Len(intentos') = Len(grandes)
                       THEN /\ pantalla' = Append(pantalla, Out("sms_enviados", enviados'))
                            /\ pc' = "descarga"
                       ELSE pantalla' = pantalla /\ pc' = pc
               ELSE /\ enviados' = enviados
                    /\ Show("error_sms")
                    /\ pc' = except_sms
    /\ UNCHANGED <<modelo, uploaded_file, sms_enable, min_cluster_size, to_number,
                   usar_filtro_velocidad, df, df_micro, df_cluster, summary,
                   grandes, df_final>>

\* lines 210-216
descarga ==
    /\ pc = "descarga"
    /\ df_final' = build_df_final(df, df_micro, df_cluster)
    /\ Show("descarga")
    /\ pc' = "done"
    /\ UNCHANGED <<modelo, uploaded_file, sms_enable, min_cluster_size, to_number,
                   usar_filtro_velocidad, df, df_micro, df_cluster, summary,
                   grandes, enviados, intentos>>

Next ==
    \/ load_model
    \/ file_uploader
    \/ sms_panel
    \/ lectura
    \/ microparadas
    \/ dbscan
    \/ mapa_clusters
    \/ resumen
    \/ trigger_sms
    \/ sms_loop
    \/ descarga

Spec == Init /\ [][Next]_vars

(***************************************************************************)
(* The clusterer on its own: a batch is drawn, agrupar_con_modelo runs.    *)
(***************************************************************************)
InitCluster ==
    /\ pc = "agrupar"
    /\ modelo \in {<<x>> : x \in ClusterModels}
    /\ df \in SeqsUpTo(ClusterSamples, MaxPts) \ {<<>>}
    /\ df_cluster = <<>>
    /\ uploaded_file = <<>>
    /\ sms_enable = FALSE
    /\ min_cluster_size = 10
    /\ to_number = ""
    /\ usar_filtro_velocidad = FALSE
    /\ df_micro = <<>> /\ summary = <<>> /\ grandes = <<>>
    /\ enviados = 0 /\ intentos = <<>> /\ pantalla = <<>> /\ df_final = <<>>

Agrupar ==
    /\ pc = "agrupar"
    /\ df_cluster' = agrupar_con_modelo(df, modelo[1])
    /\ pc' = "agrupado"
    /\ UNCHANGED <<modelo, uploaded_file, sms_enable, min_cluster_size, to_number,
                   usar_filtro_velocidad, df, df_micro, summary, grandes,
                   enviados, intentos, pantalla, df_final>>

NextCluster == Agrupar

ClusterSpec == InitCluster /\ [][NextCluster]_vars

(***************************************************************************)
(* Properties.                                                             *)
(***************************************************************************)
Range(q) == {q[k] : k \in DOMAIN q}

\* positions of the script
MicroDone ==
    pc \in {"dbscan", "mapa_clusters", "resumen", "trigger_sms", "sms_loop",
            "descarga", "done", "failed"}
SummaryDone == pc \in {"trigger_sms", "sms_loop", "descarga", "done"}
TriggerDone == pc \in {"sms_loop", "descarga", "done"}

\* the rows a label was given to, and the sum of their speeds
RowsOf(c) == {i \in DOMAIN df_cluster : df_cluster[i] = c}

RECURSIVE TotalVel(_)
TotalVel(rows) ==
    IF rows = {} THEN 0
    ELSE LET i == CHOOSE x \in rows : TRUE
         IN df[i].vel + TotalVel(rows \ {i})

ClusterIds == Range(df_cluster) \ {NOISE}

\* C1: the clusters selected for alerting are exactly those with
\* size >= min_cluster_size and, when the speed filter is on, a mean speed
\* below the cut-off; with the filter off the mean speed plays no role.
Warranted ==
    {c \in ClusterIds :
        /\ Cardinality(RowsOf(c)) >= min_cluster_size
        /\ usar_filtro_velocidad =>
              TotalVel(RowsOf(c)) < AlertSpeed * Cardinality(RowsOf(c))}

C1_AlertSelection ==
    (TriggerDone /\ sms_enable) =>
        /\ {grandes[k].cluster : k \in DOMAIN grandes} = Warranted
        /\ Len(grandes) = Cardinality(Warranted)
        /\ Range(grandes) \subseteq Range(summary)

\* a cluster of exactly the minimum size is selected while another cluster,
\* large enough, is left out by the speed filter
C1_Witness ==
    /\ TriggerDone /\ sms_enable /\ usar_filtro_velocidad
    /\ \E k \in DOMAIN grandes : grandes[k].count = min_cluster_size
    /\ \E k \in DOMAIN summary :
          summary[k].count >= min_cluster_size /\ summary[k] \notin Range(grandes)

\* C2: one mark per row, in row order; a row is marked as a micro-stop iff
\* its speed is strictly below 5 (exactly 5 is not), whatever the clustering
\* gives.
C2_MicroStopFlags ==
    MicroDone =>
        /\ Len(df_micro) = Len(df)
        /\ \A i \in DOMAIN df :
              /\ df_micro[i] \in {ALERTA, NORMAL}
              /\ (df_micro[i] = ALERTA) <=> (df[i].vel < 5)
              /\ df[i].vel = 5 => df_micro[i] = NORMAL
        /\ pc = "done" =>
              \A i \in DOMAIN df : df_final[i].alerta_microparada = df_micro[i]

\* a clustered batch with a marked row (4 km/h) inside a cluster and an
\* unmarked row of exactly 5 km/h left as noise
C2_Witness ==
    /\ pc = "done"
    /\ \E i, j \in DOMAIN df :
          /\ df[i].vel = 4 /\ df_micro[i] = ALERTA /\ df_cluster[i] # NOISE
          /\ df[j].vel = 5 /\ df_micro[j] = NORMAL /\ df_cluster[j] = NOISE

\* C3: the summary has exactly one row per non-noise label of the
\* assignment, no row for the noise label, and each row's size is the
\* number of rows with that label (so at least 1).
C3_SummaryRows ==
    SummaryDone =>
        /\ \A k \in DOMAIN summary : summary[k].cluster # NOISE
        /\ \A k, l \in DOMAIN summary : k # l => summary[k].cluster # summary[l].cluster
        /\ {summary[k].cluster : k \in DOMAIN summary} = ClusterIds
        /\ \A k \in DOMAIN summary :
              /\ summary[k].count = Cardinality(RowsOf(summary[k].cluster))
              /\ summary[k].count >= 1

\* a summary of two clusters of a batch that also has noise
C3_Witness ==
    /\ SummaryDone
    /\ Len(summary) >= 2
    /\ NOISE \in Range(df_cluster)

\* C4 as stated: descending size, ties by ascending cluster id.
C4_SizeThenId ==
    SummaryDone =>
        \A k, l \in DOMAIN summary :
            k < l =>
                \/ summary[k].count > summary[l].count
                \/ /\ summary[k].count = summary[l].count
                   /\ summary[k].cluster < summary[l].cluster

\* C4 as amended: the summary rows are in descending order of size (the
\* order of rows of equal size is not determined).
C4_DescendingSize ==
    SummaryDone =>
        \A k, l \in DOMAIN summary : k < l => summary[k].count >= summary[l].count

\* a summary whose first cluster is larger than its second, the larger one
\* having the higher id
C4_Witness ==
    /\ SummaryDone
    /\ Len(summary) >= 2
    /\ summary[1].count > summary[2].count
    /\ summary[1].cluster > summary[2].cluster

\* the file was read and has the columns, but no rows
EmptyBatch == pc # "stopped" /\ df = <<>> /\ Shown("archivo_cargado")

\* C7: an empty batch ends in the error outcome at once: nothing is
\* clustered, summarised, alerted or exported for it.
C7_EmptyBatchFails ==
    EmptyBatch =>
        /\ pc \in {"microparadas", "dbscan", "failed"}
        /\ df_cluster = <<>> /\ summary = <<>> /\ grandes = <<>>
        /\ intentos = <<>> /\ df_final = <<>>
        /\ ~Shown("m2") /\ ~Shown("summary") /\ ~Shown("descarga")
        /\ ~Shown("sms_enviados") /\ ~Shown("error_sms")

\* the run of an empty batch has ended in the error outcome
C7_Witness == EmptyBatch /\ pc = "failed" /\ Shown("excepcion")

\* the outputs of a batch
Clustered == df # <<>> /\ Len(df_cluster) = Len(df)
Summarised == Clustered /\ SummaryDone /\ Range(summary) = groupby(df, df_cluster)
AnyOutput ==
    \/ Shown("m1") \/ Shown("m2") \/ Shown("summary")
    \/ intentos # <<>> \/ Shown("descarga")

\* C8 as stated: no output before the batch is clustered and summarised.
C8_NoOutputBeforeSummary == AnyOutput => Summarised

\* C8 as amended: only the micro-stop map precedes the clustering.  The
\* cluster map is shown only of a clustered batch; the summary table, the
\* SMS and the export only of a clustered and summarised batch; and when
\* the scaling or the clustering fails, nothing but the micro-stop map has
\* been produced.
C8_OutputsAfterTheirStage ==
    /\ Shown("m2") => Clustered /\ Shown("m1")
    /\ (Shown("summary") \/ intentos # <<>> \/ Shown("descarga")) =>
          Summarised /\ Shown("m2")
    /\ pc = "failed" =>
          ~Shown("m2") /\ ~Shown("summary") /\ intentos = <<>> /\ ~Shown("descarga")

\* every output of a batch has been produced, SMS included
C8_Witness ==
    /\ pc = "done"
    /\ Shown("m1") /\ Shown("m2") /\ Shown("summary") /\ Shown("descarga")
    /\ intentos # <<>>

SmsFailed == \E k \in DOMAIN intentos : intentos[k].result # "sid"

\* C9: after a failed SMS delivery the script goes on to the export; the
\* marks, the assignment and the summary are those of the batch, and the
\* export has one record per row with the row, its mark and its label.
C9_SmsFailureHarmless ==
    SmsFailed =>
        /\ pc \in {"descarga", "done"}
        /\ df_micro = detectar_microparadas(df)
        /\ df_cluster = agrupar_con_modelo(df, modelo[1])
        /\ Range(summary) = groupby(df, df_cluster)
        /\ Len(summary) = Cardinality(groupby(df, df_cluster))
        /\ pc = "done" =>
              /\ Shown("descarga")
              /\ Len(df_final) = Len(df)
              /\ \A i \in DOMAIN df :
                    /\ df_final[i].fila = df[i]
                    /\ df_final[i].alerta_microparada = df_micro[i]
                    /\ df_final[i].cluster_dbscan = df_cluster[i]

\* the export has been produced after a delivery failed
C9_Witness == SmsFailed /\ pc = "done" /\ df_final # <<>> /\ Shown("error_sms")

Sent == {k \in DOMAIN intentos : intentos[k].result = "sid"}

\* C10: one delivery attempt per matched cluster and no other, none when
\* notification is off or nothing matched, and the reported count is the
\* number of matched clusters whose delivery succeeded, also after a
\* failed delivery.
C10_OneAttemptPerMatch ==
    pc \in {"descarga", "done"} =>
        /\ IF sms_enable
           THEN [k \in DOMAIN intentos |-> intentos[k].cluster]
                    = [k \in DOMAIN grandes |-> grandes[k].cluster]
           ELSE intentos = <<>>
        /\ (sms_enable /\ grandes # <<>>) =>
              Out("sms_enviados", Cardinality(Sent)) \in Range(pantalla)

(***************************************************************************)
(* Properties of the clusterer.                                            *)
(***************************************************************************)
\* the rows that are no core rows but within eps of one
Border(nb, core) == {i \in DOMAIN nb : i \notin core /\ nb[i] \cap core # {}}

\* the rows density-reachable from the rows of R
RECURSIVE ReachFrom(_, _, _)
ReachFrom(R, nb, core) ==
    LET more == R \cup UNION {nb[k] : k \in R \cap core}
    IN IF more = R THEN R ELSE ReachFrom(more, nb, core)

NoiseIffUnreached(labels, nb, core) ==
    \A i \in DOMAIN nb :
        /\ labels[i] = NOISE \/ labels[i] \in Nat
        /\ (labels[i] = NOISE) <=> (i \notin core /\ nb[i] \cap core = {})
        /\ labels[i] # NOISE =>
              \E j \in core : labels[j] = labels[i] /\ i \in ReachFrom({j}, nb, core)

\* C6: every row has one label; a row is noise iff it is no core row and
\* no core row is within eps of it; any other row carries the label of a
\* core row from which it is density-reachable.  (The eps-neighbourhoods
\* are those of the scaled features.)
C6_NoiseAndReachability ==
    pc = "agrupado" =>
        LET nb == Neighborhoods(df, StandardScaler(df), modelo[1])
            core == CoreSamples(nb, modelo[1])
        IN /\ DOMAIN df_cluster = DOMAIN df
           /\ NoiseIffUnreached(df_cluster, nb, core)

\* a batch with a cluster, a border row in it and a noise row
C6_Witness ==
    /\ pc = "agrupado"
    /\ LET nb == Neighborhoods(df, StandardScaler(df), modelo[1])
           core == CoreSamples(nb, modelo[1])
       IN /\ \E i \in DOMAIN df : df_cluster[i] = NOISE
          /\ \E i \in Border(nb, core) : df_cluster[i] # NOISE
          /\ Cardinality(core) >= 2

\* processing orders: the first two rows swapped, the rows rotated by one,
\* the rows reversed (the first two generate every order)
Orders(n) ==
    {[i \in 1..n |-> IF i = 1 /\ n > 1 THEN 2 ELSE IF i = 2 THEN 1 ELSE i],
     [i \in 1..n |-> (i % n) + 1],
     [i \in 1..n |-> n + 1 - i]}

Reorder(d, o) == [i \in 1..Len(d) |-> d[o[i]]]

\* the labels of the rows of d when the batch is processed in order o
LabelsInOrder(d, o, m) ==
    LET l == agrupar_con_modelo(Reorder(d, o), m)
    IN [k \in DOMAIN d |-> l[CHOOSE i \in DOMAIN d : o[i] = k]]

\* the grouping a labelling makes of the rows of S, and its noise rows
Groups(labels, S) ==
    {{i \in S : labels[i] = c} : c \in {labels[i] : i \in S} \ {NOISE}}
NoiseRows(labels) == {i \in DOMAIN labels : labels[i] = NOISE}

SamePartition(l1, l2) ==
    /\ Groups(l1, DOMAIN l1) = Groups(l2, DOMAIN l2)
    /\ NoiseRows(l1) = NoiseRows(l2)

\* C5 as stated: the partition into clusters and noise is the same for
\* every processing order.
C5_SamePartitionAnyOrder ==
    pc = "agrupado" =>
        \A o \in Orders(Len(df)) :
            SamePartition(LabelsInOrder(df, o, modelo[1]), df_cluster)

BorderJoinsNeighbour(labels, nb, core) ==
    \A i \in Border(nb, core) : \E j \in nb[i] \cap core : labels[j] = labels[i]

SameCoreGrouping(l1, l2, nb, core) ==
    /\ NoiseRows(l1) = NoiseRows(l2)
    /\ Groups(l1, core) = Groups(l2, core)
    /\ BorderJoinsNeighbour(l1, nb, core)
    /\ BorderJoinsNeighbour(l2, nb, core)

\* C5 as amended: the noise rows and the grouping of the core rows are the
\* same for every processing order, and a border row is in the cluster of
\* a core row within eps of it (which one depends on the order).
C5_CoreGroupingAnyOrder ==
    pc = "agrupado" =>
        LET nb == Neighborhoods(df, StandardScaler(df), modelo[1])
            core == CoreSamples(nb, modelo[1])
        IN \A o \in Orders(Len(df)) :
              SameCoreGrouping(LabelsInOrder(df, o, modelo[1]), df_cluster, nb, core)

\* a border row within eps of core rows of two different clusters
C5_Witness ==
    /\ pc = "agrupado"
    /\ LET nb == Neighborhoods(df, StandardScaler(df), modelo[1])
           core == CoreSamples(nb, modelo[1])
       IN \E i \in Border(nb, core) :
              \E j, k \in nb[i] \cap core : df_cluster[j] # df_cluster[k]

====
